---- MODULE Spec2Model ----
(***************************************************************************)
(* A model of the compressed bitset (word codec, bitset engine), of the    *)
(* operation planner and of the append-only bitset list.                   *)
(*                                                                         *)
(* A 32-bit encoded word is the record [f |-> bit 31, v |-> bits 30..0]:   *)
(* the model checker's integers stop at 2^31-1, so the fill bit is kept    *)
(* apart from the 31 low bits.  All the macros of bitset.h are written on  *)
(* this pair and compute what the C expressions compute on uint32_t.       *)
(***************************************************************************)
EXTENDS Integers, Sequences, FiniteSets, TLC

VARIABLES words, ref, last, ops, inner, building, result,
          list, exited, entries, call, copy, varint,
          iter, iter2, counts, iterCall, codec, wide

bitsetVars == <<words, ref, last>>

opVars == <<ops, inner, building, result>>

listVars == <<list, exited, entries, call, copy>>

varintVars == <<varint>>

iterVars == <<iter, iter2, counts, iterCall>>

codecVars == <<codec>>

wideVars == <<wide>>

vars ==
    <<words, ref, last, ops, inner, building, result, list, exited, entries, call, copy,
      varint, iter, iter2, counts, iterCall, codec, wide>>

(***************************************************************************)
(* Bounds of the model.                                                    *)
(***************************************************************************)
MaxBlock == 2

MaxSteps == 3

MaxPush == 3

PairBlocks == {0}

(***************************************************************************)
(* Bit arithmetic on naturals below 2^31.                                  *)
(***************************************************************************)
\* Bitwise operators, eight bits at a time where the low byte of an operand
\* is all zeros (or, for the second operand of AND, all ones), one bit at a
\* time otherwise.
RECURSIVE BitAnd(_, _)
BitAnd(a, b) ==
    IF a = 0 \/ b = 0 THEN 0
    ELSE IF a % 256 = 0 \/ b % 256 = 0 THEN 256 * BitAnd(a \div 256, b \div 256)
    ELSE IF b % 256 = 255 THEN (a % 256) + 256 * BitAnd(a \div 256, b \div 256)
    ELSE (a % 2) * (b % 2) + 2 * BitAnd(a \div 2, b \div 2)

RECURSIVE BitOr(_, _)
BitOr(a, b) ==
    IF a = 0 THEN b
    ELSE IF b = 0 THEN a
    ELSE IF b % 256 = 0 THEN (a % 256) + 256 * BitOr(a \div 256, b \div 256)
    ELSE IF a % 256 = 0 THEN (b % 256) + 256 * BitOr(a \div 256, b \div 256)
    ELSE (IF a % 2 = 1 \/ b % 2 = 1 THEN 1 ELSE 0) + 2 * BitOr(a \div 2, b \div 2)

RECURSIVE BitXor(_, _)
BitXor(a, b) ==
    IF a = 0 THEN b
    ELSE IF b = 0 THEN a
    ELSE IF b % 256 = 0 THEN (a % 256) + 256 * BitXor(a \div 256, b \div 256)
    ELSE IF a % 256 = 0 THEN (b % 256) + 256 * BitXor(a \div 256, b \div 256)
    ELSE (((a % 2) + (b % 2)) % 2) + 2 * BitXor(a \div 2, b \div 2)

P31 == 2147483647

BitNot31(a) == P31 - a

(***************************************************************************)
(* 32-bit words.                                                           *)
(***************************************************************************)
Word(fill, low) == [f |-> fill, v |-> low]

Lit(n) == Word(0, n)

WOr(a, b) == Word(IF a.f = 1 \/ b.f = 1 THEN 1 ELSE 0, BitOr(a.v, b.v))

WAnd(a, b) == Word(a.f * b.f, BitAnd(a.v, b.v))

WNot(a) == Word(1 - a.f, BitNot31(a.v))

\* n << s on 32 bits, for n < 2^(32-s+1): the bit that reaches bit 31 is
\* the fill bit, higher bits are lost.
Shl(n, s) ==
    Word((n \div (2 ^ (31 - s))) % 2,
         IF s >= 31 THEN 0 ELSE (n % (2 ^ (31 - s))) * (2 ^ s))

\* w >> s on the record form.
Shr(w, s) == (w.v \div (2 ^ s)) + (IF s = 0 THEN 0 ELSE w.f * (2 ^ (31 - s)))

(***************************************************************************)
(* The word codec: bitset.h                                                *)
(***************************************************************************)
BITSET_WORD_LENGTH == 32

BITSET_LOG2(x) == 8 - (90 \div BitOr((x \div 4) + 14, 1)) - (2 \div ((x \div 2) + 1))

BITSET_POSITION_LENGTH == BITSET_LOG2(BITSET_WORD_LENGTH)

BITSET_FILL_BIT == Shl(1, BITSET_WORD_LENGTH - 1)

BITSET_SPAN_LENGTH == BITSET_WORD_LENGTH - BITSET_POSITION_LENGTH - 1

BITSET_POSITION_MASK == Shl((2 ^ BITSET_POSITION_LENGTH) - 1, BITSET_SPAN_LENGTH)

BITSET_LENGTH_MASK == (2 ^ BITSET_SPAN_LENGTH) - 1

BITSET_LITERAL_LENGTH == BITSET_WORD_LENGTH - 1

BITSET_IS_FILL_WORD(word) == WAnd(word, BITSET_FILL_BIT) # Lit(0)

BITSET_IS_LITERAL_WORD(word) == WAnd(word, BITSET_FILL_BIT) = Lit(0)

BITSET_GET_LENGTH(word) == WAnd(word, Lit(BITSET_LENGTH_MASK)).v

BITSET_SET_LENGTH(word, len) == WOr(word, Lit(len))

BITSET_GET_POSITION(word) == Shr(WAnd(word, BITSET_POSITION_MASK), BITSET_SPAN_LENGTH)

\* (mutant) the position shifted one bit short.
BITSET_SET_POSITION_ShortShift(word, pos) == WOr(word, Shl(pos, BITSET_SPAN_LENGTH - 1))

BITSET_SET_POSITION(word, pos) == WOr(word, Shl(pos, BITSET_SPAN_LENGTH))

\* (mutant) the position mask is not applied.
BITSET_UNSET_POSITION_Keep(word) == word

BITSET_UNSET_POSITION(word) == WAnd(word, WNot(BITSET_POSITION_MASK))

\* (mutant) the position stored without the + 1.
BITSET_CREATE_FILL_NoPlusOne(len, pos) ==
    BITSET_SET_POSITION(WOr(BITSET_FILL_BIT, Lit(len)), pos)

\* (mutant) the fill bit is left out.
BITSET_CREATE_FILL_NoFillBit(len, pos) == BITSET_SET_POSITION(Lit(len), pos + 1)

BITSET_CREATE_FILL(len, pos) == BITSET_SET_POSITION(WOr(BITSET_FILL_BIT, Lit(len)), pos + 1)

BITSET_CREATE_EMPTY_FILL(len) == WOr(BITSET_FILL_BIT, Lit(len))

\* (mutant) the mask starts one bit too low.
BITSET_CREATE_LITERAL_Low(bit) == Lit((2 ^ (BITSET_WORD_LENGTH - 3)) \div (2 ^ bit))

BITSET_CREATE_LITERAL(bit) == Lit((2 ^ (BITSET_WORD_LENGTH - 2)) \div (2 ^ bit))

BITSET_MAX_LENGTH == BITSET_LENGTH_MASK

\* BITSET_POP_COUNT(c, w): the value added to c.  w * P5 is taken modulo
\* 2^32 and shifted right by 24: the sum of the four bytes of w, modulo 256.
PC1(w) == BitAnd(w.v, P31)

PC2(w) == w - BitAnd(w \div 2, 1431655765)

PC3(w) == BitAnd(w, 858993459) + BitAnd(w \div 4, 858993459)

\* (mutant) the high nibble of every byte is dropped, not added.
PC4_NoFold(w) == BitAnd(w, 252645135)

PC4(w) == BitAnd(w + (w \div 16), 252645135)

PC5(w) == ((w % 256) + ((w \div 256) % 256) + ((w \div 65536) % 256)
            + (w \div 16777216)) % 256

\* (mutant) the low byte of the byte sums is taken, not the high byte.
BITSET_POP_COUNT_LowByte(w) == PC4(PC3(PC2(PC1(w)))) % 256

BITSET_POP_COUNT(w) == PC5(PC4(PC3(PC2(PC1(w)))))

(***************************************************************************)
(* The bitset engine.  A bitset is its sequence of encoded words (length   *)
(* is Len).  The logical-to-physical mapping: a literal covers one block,  *)
(* a fill covers L clean blocks and, when P > 0, one more block holding    *)
(* the single bit P-1.                                                     *)
(***************************************************************************)
Offset(blk, bit) == blk * BITSET_LITERAL_LENGTH + bit

\* The walk shared by get and set: the word covering block word_offset,
\* counted from word i.  kind is "literal", "clean" (k = distance from the
\* start of the fill's span), "absorbed" or "past" (k = clean blocks
\* between the logical end and the block).
RECURSIVE Locate(_, _, _)
Locate(ws, i, word_offset) ==
    IF i > Len(ws) THEN [kind |-> "past", i |-> i, k |-> word_offset]
    ELSE IF BITSET_IS_FILL_WORD(ws[i]) THEN
        LET length == BITSET_GET_LENGTH(ws[i])
            position == BITSET_GET_POSITION(ws[i])
        IN  IF word_offset < length
            THEN [kind |-> "clean", i |-> i, k |-> word_offset]
            ELSE IF position > 0
            THEN IF word_offset = length
                 THEN [kind |-> "absorbed", i |-> i, k |-> length]
                 ELSE Locate(ws, i + 1, word_offset - length - 1)
            ELSE Locate(ws, i + 1, word_offset - length)
    ELSE IF word_offset = 0
         THEN [kind |-> "literal", i |-> i, k |-> 0]
         ELSE Locate(ws, i + 1, word_offset - 1)

\* word & BITSET_CREATE_LITERAL(bit): the mask holds one bit, so the
\* conjunction is non-zero exactly when that bit of the word is set.
HasBit(word, bit) ==
    LET mask == BITSET_CREATE_LITERAL(bit).v
    IN  mask > 0 /\ (word.v \div mask) % 2 = 1

\* The value of bit `bit` of the block that loc locates.
GetIn(ws, loc, bit) ==
    CASE loc.kind = "literal"  -> HasBit(ws[loc.i], bit)
      [] loc.kind = "clean"    -> FALSE
      [] loc.kind = "absorbed" -> bit = BITSET_GET_POSITION(ws[loc.i]) - 1
      [] loc.kind = "past"     -> FALSE

bitset_get(ws, o) ==
    GetIn(ws, Locate(ws, 1, o \div BITSET_LITERAL_LENGTH), o % BITSET_LITERAL_LENGTH)

RECURSIVE bitset_count_from(_, _)
bitset_count_from(ws, i) ==
    IF i > Len(ws) THEN 0
    ELSE (IF BITSET_IS_FILL_WORD(ws[i])
          THEN (IF BITSET_GET_POSITION(ws[i]) > 0 THEN 1 ELSE 0)
          ELSE BITSET_POP_COUNT(ws[i]))
         + bitset_count_from(ws, i + 1)

bitset_count(ws) == bitset_count_from(ws, 1)

\* Index of the first / last set bit of a non-zero literal (bit 0 is 2^30).
RECURSIVE Log2Floor(_)
Log2Floor(n) == IF n <= 1 THEN 0 ELSE 1 + Log2Floor(n \div 2)

RECURSIVE TrailingZeros(_)
TrailingZeros(n) == IF n % 2 = 1 THEN 0 ELSE 1 + TrailingZeros(n \div 2)

bitset_ffs(word) == (BITSET_WORD_LENGTH - 2) - Log2Floor(word.v)

bitset_fls(word) == (BITSET_WORD_LENGTH - 2) - TrailingZeros(word.v)

\* min: the first set-bit-bearing word decides; 0 when there is none.
RECURSIVE bitset_min_from(_, _, _)
bitset_min_from(ws, i, blk) ==
    IF i > Len(ws) THEN 0
    ELSE IF BITSET_IS_FILL_WORD(ws[i]) THEN
        LET length == BITSET_GET_LENGTH(ws[i])
            position == BITSET_GET_POSITION(ws[i])
        IN  IF position > 0
            THEN Offset(blk + length, position - 1)
            ELSE bitset_min_from(ws, i + 1, blk + length)
    ELSE IF ws[i] # Lit(0)
         THEN Offset(blk, bitset_ffs(ws[i]))
         ELSE bitset_min_from(ws, i + 1, blk + 1)

bitset_min(ws) == bitset_min_from(ws, 1, 0)

\* max: symmetric; best is the answer of the last set-bit-bearing word seen.
RECURSIVE bitset_max_from(_, _, _, _)
bitset_max_from(ws, i, blk, best) ==
    IF i > Len(ws) THEN best
    ELSE IF BITSET_IS_FILL_WORD(ws[i]) THEN
        LET length == BITSET_GET_LENGTH(ws[i])
            position == BITSET_GET_POSITION(ws[i])
        IN  IF position > 0
            THEN bitset_max_from(ws, i + 1, blk + length + 1,
                                 Offset(blk + length, position - 1))
            ELSE bitset_max_from(ws, i + 1, blk + length, best)
    ELSE bitset_max_from(ws, i + 1, blk + 1,
                         IF ws[i] # Lit(0) THEN Offset(blk, bitset_fls(ws[i])) ELSE best)

bitset_max(ws) == bitset_max_from(ws, 1, 0, 0)

\* ws with word i replaced by the words of repl.
Splice(ws, i, repl) == SubSeq(ws, 1, i - 1) \o repl \o SubSeq(ws, i + 1, Len(ws))

\* (mutant) one fill whatever the gap: a long gap spills into the position.
FillChain_Spill(gap, bit) == <<BITSET_CREATE_FILL(gap, bit)>>

\* Past the end, v = true: the chain of fills that bridges gap clean blocks
\* and absorbs the bit.
RECURSIVE FillChain(_, _)
FillChain(gap, bit) ==
    IF gap > BITSET_MAX_LENGTH
    THEN <<BITSET_CREATE_EMPTY_FILL(BITSET_MAX_LENGTH)>>
            \o FillChain(gap - BITSET_MAX_LENGTH, bit)
    ELSE <<BITSET_CREATE_FILL(gap, bit)>>

\* (mutant) the bit is never absorbed into the fill at the tail.
SetPastEnd_AlwaysAppend(ws, gap, bit, value) ==
    IF ~value THEN [words |-> ws, ret |-> FALSE]
    ELSE [words |-> ws \o FillChain(gap, bit), ret |-> FALSE]

SetPastEnd(ws, gap, bit, value) ==
    IF ~value THEN [words |-> ws, ret |-> FALSE]
    ELSE IF gap = 0 /\ Len(ws) > 0 /\ BITSET_IS_FILL_WORD(ws[Len(ws)])
            /\ BITSET_GET_POSITION(ws[Len(ws)]) = 0
    THEN [words |-> Splice(ws, Len(ws), <<BITSET_SET_POSITION(ws[Len(ws)], bit + 1)>>),
          ret |-> FALSE]
    ELSE [words |-> ws \o FillChain(gap, bit), ret |-> FALSE]

\* A fill with no absorbed bit right before word i.
EmptyFillBefore(ws, i) ==
    /\ i > 1
    /\ BITSET_IS_FILL_WORD(ws[i - 1])
    /\ BITSET_GET_POSITION(ws[i - 1]) = 0

SetInLiteral(ws, i, bit, value) ==
    LET mask == BITSET_CREATE_LITERAL(bit)
        previous == WAnd(ws[i], mask) # Lit(0)
        literal == IF value THEN WOr(ws[i], mask) ELSE WAnd(ws[i], WNot(mask))
    IN  IF previous = value THEN [words |-> ws, ret |-> previous]
        ELSE IF literal = Lit(0) /\ EmptyFillBefore(ws, i)
                /\ BITSET_GET_LENGTH(ws[i - 1]) < BITSET_MAX_LENGTH
        THEN [words |-> SubSeq(ws, 1, i - 2)
                        \o <<BITSET_CREATE_EMPTY_FILL(BITSET_GET_LENGTH(ws[i - 1]) + 1)>>
                        \o SubSeq(ws, i + 1, Len(ws)),
              ret |-> previous]
        ELSE IF BITSET_POP_COUNT(literal) = 1 /\ EmptyFillBefore(ws, i)
        THEN [words |-> SubSeq(ws, 1, i - 2)
                        \o <<BITSET_SET_POSITION(ws[i - 1], bitset_ffs(literal) + 1)>>
                        \o SubSeq(ws, i + 1, Len(ws)),
              ret |-> previous]
        ELSE [words |-> Splice(ws, i, <<literal>>), ret |-> previous]

\* (mutant) the trailing fill loses the position of the fill that was split.
SetInCleanSpan_DropPosition(ws, i, k, bit, value) ==
    LET fill_length == BITSET_GET_LENGTH(ws[i])
        position == BITSET_GET_POSITION(ws[i])
        rest == fill_length - k - 1
        head == IF k > 0 THEN BITSET_CREATE_FILL(k, bit) ELSE BITSET_CREATE_LITERAL(bit)
        tail == IF rest > 0 THEN <<BITSET_CREATE_EMPTY_FILL(rest)>>
                ELSE IF position > 0 THEN <<BITSET_CREATE_LITERAL(position - 1)>>
                ELSE <<>>
    IN  IF ~value THEN [words |-> ws, ret |-> FALSE]
        ELSE [words |-> Splice(ws, i, <<head>> \o tail), ret |-> FALSE]

\* (mutant) the fill is split whatever the value.
SetInCleanSpan_AnyValue(ws, i, k, bit, value) ==
    LET fill_length == BITSET_GET_LENGTH(ws[i])
        position == BITSET_GET_POSITION(ws[i])
        rest == fill_length - k - 1
        head == IF k > 0 THEN BITSET_CREATE_FILL(k, bit) ELSE BITSET_CREATE_LITERAL(bit)
        tail == IF rest > 0 THEN <<BITSET_CREATE_FILL(rest, position - 1)>>
                ELSE IF position > 0 THEN <<BITSET_CREATE_LITERAL(position - 1)>>
                ELSE <<>>
    IN  [words |-> Splice(ws, i, <<head>> \o tail), ret |-> FALSE]

\* (mutant) the bit is emitted as a literal after a head fill with P = 0.
SetInCleanSpan_HeadLiteral(ws, i, k, bit, value) ==
    LET fill_length == BITSET_GET_LENGTH(ws[i])
        position == BITSET_GET_POSITION(ws[i])
        rest == fill_length - k - 1
        head == IF k > 0 THEN <<BITSET_CREATE_EMPTY_FILL(k), BITSET_CREATE_LITERAL(bit)>>
                ELSE <<BITSET_CREATE_LITERAL(bit)>>
        tail == IF rest > 0 THEN <<BITSET_CREATE_FILL(rest, position - 1)>>
                ELSE IF position > 0 THEN <<BITSET_CREATE_LITERAL(position - 1)>>
                ELSE <<>>
    IN  IF ~value THEN [words |-> ws, ret |-> FALSE]
        ELSE [words |-> Splice(ws, i, head \o tail), ret |-> FALSE]

SetInCleanSpan(ws, i, k, bit, value) ==
    LET fill_length == BITSET_GET_LENGTH(ws[i])
        position == BITSET_GET_POSITION(ws[i])
        rest == fill_length - k - 1
        head == IF k > 0 THEN BITSET_CREATE_FILL(k, bit) ELSE BITSET_CREATE_LITERAL(bit)
        tail == IF rest > 0 THEN <<BITSET_CREATE_FILL(rest, position - 1)>>
                ELSE IF position > 0 THEN <<BITSET_CREATE_LITERAL(position - 1)>>
                ELSE <<>>
    IN  IF ~value THEN [words |-> ws, ret |-> FALSE]
        ELSE [words |-> Splice(ws, i, <<head>> \o tail), ret |-> FALSE]

\* The absorbed block stays a block of the stream when its bit is cleared
\* and words follow: the following fill grows by one, or a zero literal is
\* emitted.
ClearAbsorbed_DropBlock(ws, i) == Splice(ws, i, <<BITSET_UNSET_POSITION(ws[i])>>)

ClearAbsorbed(ws, i) ==
    LET cleared == BITSET_UNSET_POSITION(ws[i])
    IN  IF i = Len(ws) THEN Splice(ws, i, <<cleared>>)
        ELSE IF BITSET_IS_FILL_WORD(ws[i + 1])
                /\ BITSET_GET_LENGTH(ws[i + 1]) < BITSET_MAX_LENGTH
        THEN SubSeq(ws, 1, i - 1)
             \o <<cleared,
                  BITSET_CREATE_FILL(BITSET_GET_LENGTH(ws[i + 1]) + 1,
                                     BITSET_GET_POSITION(ws[i + 1]) - 1)>>
             \o SubSeq(ws, i + 2, Len(ws))
        ELSE Splice(ws, i, <<cleared, Lit(0)>>)

\* (mutant) the literal holds the new bit only.
SetInAbsorbed_OneBit(ws, i, bit, value) ==
    LET position == BITSET_GET_POSITION(ws[i])
    IN  IF position = bit + 1
        THEN IF value THEN [words |-> ws, ret |-> TRUE]
             ELSE [words |-> ClearAbsorbed(ws, i), ret |-> TRUE]
        ELSE IF ~value THEN [words |-> ws, ret |-> FALSE]
        ELSE [words |-> Splice(ws, i,
                  <<BITSET_UNSET_POSITION(ws[i]), BITSET_CREATE_LITERAL(bit)>>),
              ret |-> FALSE]

SetInAbsorbed(ws, i, bit, value) ==
    LET position == BITSET_GET_POSITION(ws[i])
    IN  IF position = bit + 1
        THEN IF value THEN [words |-> ws, ret |-> TRUE]
             ELSE [words |-> ClearAbsorbed(ws, i), ret |-> TRUE]
        ELSE IF ~value THEN [words |-> ws, ret |-> FALSE]
        ELSE [words |-> Splice(ws, i,
                  <<BITSET_UNSET_POSITION(ws[i]),
                    WOr(BITSET_CREATE_LITERAL(position - 1), BITSET_CREATE_LITERAL(bit))>>),
              ret |-> FALSE]

\* bitset_set_to(b, o, v): the new word stream and the returned value.
bitset_set_to(ws, o, value) ==
    LET loc == Locate(ws, 1, o \div BITSET_LITERAL_LENGTH)
        bit == o % BITSET_LITERAL_LENGTH
    IN  CASE loc.kind = "past"     -> SetPastEnd(ws, loc.k, bit, value)
          [] loc.kind = "literal"  -> SetInLiteral(ws, loc.i, bit, value)
          [] loc.kind = "clean"    -> SetInCleanSpan(ws, loc.i, loc.k, bit, value)
          [] loc.kind = "absorbed" -> SetInAbsorbed(ws, loc.i, bit, value)

(***************************************************************************)
(* Canonical form, rule by rule.                                           *)
(***************************************************************************)
IsEmptyFill(w) == BITSET_IS_FILL_WORD(w) /\ BITSET_GET_POSITION(w) = 0

\* No trailing fill with P = 0.
NoTrailingEmptyFill(ws) == ~(Len(ws) > 0 /\ IsEmptyFill(ws[Len(ws)]))

\* No fill with L = 0 and P = 0.
NoNullFill(ws) ==
    \A i \in 1..Len(ws) : ~(IsEmptyFill(ws[i]) /\ BITSET_GET_LENGTH(ws[i]) = 0)

\* No fill with P = 0 right before another fill when the lengths fit one fill.
NoMergeableFills(ws) ==
    \A i \in 1..(Len(ws) - 1) :
        ~(/\ IsEmptyFill(ws[i])
          /\ BITSET_IS_FILL_WORD(ws[i + 1])
          /\ BITSET_GET_LENGTH(ws[i]) + BITSET_GET_LENGTH(ws[i + 1]) <= BITSET_MAX_LENGTH)

\* No literal with exactly one set bit right after a fill with P = 0.
NoFoldableLiteral(ws) ==
    \A i \in 2..Len(ws) :
        ~(/\ BITSET_IS_LITERAL_WORD(ws[i])
          /\ ws[i].v \in {2 ^ k : k \in 0..(BITSET_LITERAL_LENGTH - 1)}
          /\ IsEmptyFill(ws[i - 1]))

Canonical(ws) ==
    /\ NoTrailingEmptyFill(ws)
    /\ NoNullFill(ws)
    /\ NoMergeableFills(ws)
    /\ NoFoldableLiteral(ws)

\* bitset_new_bits(offsets, n): every offset set in order on an empty bitset.
RECURSIVE bitset_new_bits(_)
bitset_new_bits(offsets) ==
    IF offsets = <<>> THEN <<>>
    ELSE bitset_set_to(bitset_new_bits(SubSeq(offsets, 1, Len(offsets) - 1)),
                       offsets[Len(offsets)], TRUE).words

(***************************************************************************)
(* The operation planner.  A planner is its sequence of steps, the primary *)
(* first; a step holds its operator and either a bitset or a nested        *)
(* planner.  exec walks the operands block by block: the per-block         *)
(* patterns are folded from the left and emitted into the output stream,   *)
(* a zero block extending the fill at the tail, a one-bit block folding    *)
(* into the position of an empty fill at the tail.                         *)
(***************************************************************************)
BITSET_OR == "OR"

BITSET_AND == "AND"

BITSET_XOR == "XOR"

BITSET_ANDNOT == "ANDNOT"

OperationTypes == {BITSET_OR, BITSET_AND, BITSET_XOR, BITSET_ANDNOT}

BitsetStep(b, type) == [type |-> type, nested |-> FALSE, b |-> b, steps |-> <<>>]

NestedStep(o, type) == [type |-> type, nested |-> TRUE, b |-> <<>>, steps |-> o]

\* The number of blocks a word stream covers.
RECURSIVE LogicalLength(_)
LogicalLength(ws) ==
    IF ws = <<>> THEN 0
    ELSE LogicalLength(Tail(ws))
         + (IF BITSET_IS_FILL_WORD(Head(ws))
            THEN BITSET_GET_LENGTH(Head(ws))
                 + (IF BITSET_GET_POSITION(Head(ws)) > 0 THEN 1 ELSE 0)
            ELSE 1)

\* The 31-bit pattern of block blk: a full literal, clean zero, or the
\* absorbed-bit pattern.
BlockPattern(ws, blk) ==
    LET loc == Locate(ws, 1, blk)
    IN  CASE loc.kind = "literal"  -> ws[loc.i].v
          [] loc.kind = "absorbed" ->
                BITSET_CREATE_LITERAL(BITSET_GET_POSITION(ws[loc.i]) - 1).v
          [] OTHER                 -> 0

\* A planner that evaluates XOR as OR.
Combine_XorAsOr(type, a, b) ==
    CASE type = BITSET_OR     -> BitOr(a, b)
      [] type = BITSET_AND    -> BitAnd(a, b)
      [] type = BITSET_XOR    -> BitOr(a, b)
      [] type = BITSET_ANDNOT -> BitAnd(a, BitNot31(b))

\* A planner that evaluates AND as ANDNOT.
Combine_AndAsAndNot(type, a, b) ==
    CASE type = BITSET_OR     -> BitOr(a, b)
      [] type = BITSET_AND    -> BitAnd(a, BitNot31(b))
      [] type = BITSET_XOR    -> BitXor(a, b)
      [] type = BITSET_ANDNOT -> BitAnd(a, BitNot31(b))

\* The operator definitions per block.
Combine(type, a, b) ==
    CASE type = BITSET_OR     -> BitOr(a, b)
      [] type = BITSET_AND    -> BitAnd(a, b)
      [] type = BITSET_XOR    -> BitXor(a, b)
      [] type = BITSET_ANDNOT -> BitAnd(a, BitNot31(b))

\* The output tail after one more block.
Emit(out, pattern) ==
    LET n == Len(out)
        tailIsEmptyFill == n > 0 /\ IsEmptyFill(out[n])
    IN  IF pattern = 0
        THEN IF tailIsEmptyFill /\ BITSET_GET_LENGTH(out[n]) < BITSET_MAX_LENGTH
             THEN Splice(out, n, <<BITSET_CREATE_EMPTY_FILL(BITSET_GET_LENGTH(out[n]) + 1)>>)
             ELSE Append(out, BITSET_CREATE_EMPTY_FILL(1))
        ELSE IF BITSET_POP_COUNT(Lit(pattern)) = 1 /\ tailIsEmptyFill
        THEN Splice(out, n, <<BITSET_SET_POSITION(out[n], bitset_ffs(Lit(pattern)) + 1)>>)
        ELSE Append(out, Lit(pattern))

\* The left fold of the operands' patterns of one block.
RECURSIVE FoldPattern(_, _, _)
FoldPattern(operands, types, blk) ==
    IF operands = <<>> THEN 0
    ELSE Combine(types[Len(types)],
                 FoldPattern(SubSeq(operands, 1, Len(operands) - 1),
                             SubSeq(types, 1, Len(types) - 1), blk),
                 BlockPattern(operands[Len(operands)], blk))

RECURSIVE EmitBlocks(_, _, _, _)
EmitBlocks(operands, types, blk, blocks) ==
    IF blk = 0 THEN <<>>
    ELSE Emit(EmitBlocks(operands, types, blk - 1, blocks),
              FoldPattern(operands, types, blk - 1))

RECURSIVE CountBlocks(_, _, _)
CountBlocks(operands, types, blk) ==
    IF blk = 0 THEN 0
    ELSE CountBlocks(operands, types, blk - 1)
         + BITSET_POP_COUNT(Lit(FoldPattern(operands, types, blk - 1)))

RECURSIVE MaxLength(_)
MaxLength(operands) ==
    IF operands = <<>> THEN 0
    ELSE LET rest == MaxLength(Tail(operands))
             here == LogicalLength(Head(operands))
         IN  IF here > rest THEN here ELSE rest

\* bitset_operation_exec: nested planners stand for their own result.
RECURSIVE bitset_operation_exec(_)
bitset_operation_exec(o) ==
    LET operands == [i \in 1..Len(o) |->
                        IF o[i].nested THEN bitset_operation_exec(o[i].steps) ELSE o[i].b]
        types == [i \in 1..Len(o) |-> o[i].type]
        blocks == MaxLength(operands)
    IN  EmitBlocks(operands, types, blocks, blocks)

\* bitset_operation_count: the population count of the folded blocks, no
\* output stream built for the planner itself.
bitset_operation_count(o) ==
    LET operands == [i \in 1..Len(o) |->
                        IF o[i].nested THEN bitset_operation_exec(o[i].steps) ELSE o[i].b]
        types == [i \in 1..Len(o) |-> o[i].type]
    IN  CountBlocks(operands, types, MaxLength(operands))

(***************************************************************************)
(* The bitset list (list.c).  The buffer is the sequence of its `length'   *)
(* bytes, a byte a number in 0..255; a pointer into the buffer is its      *)
(* index, or null.                                                         *)
(***************************************************************************)
NullPointer == [null |-> TRUE, index |-> 0]

PointerAt(i) == [null |-> FALSE, index |-> i]

bitset_list_new ==
    [length |-> 0, size |-> 0, count |-> 0, tail_offset |-> 0,
     buffer |-> <<>>, tail |-> NullPointer]

\* d |= d >> 1; d |= d >> 2; ... : every bit below the highest set bit is set.
RECURSIVE Smear(_)
Smear(d) == IF d = 0 THEN 0 ELSE 2 * Smear(d \div 2) + 1

\* (mutant) the d-- before the shifts is left out.
BITSET_NEXT_POW2_NoDecrement(src) == Smear(src) + 1

BITSET_NEXT_POW2(src) == IF src = 0 THEN 0 ELSE Smear(src - 1) + 1

\* bitset_list_resize: the fields it assigns.
bitset_list_resize(c, length) ==
    [c EXCEPT !.size = IF length > c.size THEN BITSET_NEXT_POW2(length) ELSE c.size,
              !.length = length]

\* (mutant) the thresholds are taken inclusive.
bitset_encoded_length_required_bytes_Inclusive(length) ==
    IF length <= 2 ^ 6 THEN 1
    ELSE IF length <= 2 ^ 14 THEN 2
    ELSE IF length <= 2 ^ 22 THEN 3
    ELSE 4

bitset_encoded_length_required_bytes(length) ==
    IF length < 2 ^ 6 THEN 1
    ELSE IF length < 2 ^ 14 THEN 2
    ELSE IF length < 2 ^ 22 THEN 3
    ELSE 4

\* (unsigned char)length
UnsignedChar(length) == length % (2 ^ 8)

\* (mutant) the two-byte form is written without its tag.
bitset_encoded_length_bytes_NoTag(length) ==
    IF length < 2 ^ 6
    THEN <<length % (2 ^ 8)>>
    ELSE IF length < 2 ^ 14
    THEN <<(length % (2 ^ 8)) \div (2 ^ 8), BitAnd(length % (2 ^ 8), 255)>>
    ELSE IF length < 2 ^ 22
    THEN <<BitOr(128, (length % (2 ^ 8)) \div (2 ^ 16)),
           BitAnd((length % (2 ^ 8)) \div (2 ^ 8), 255),
           BitAnd(length % (2 ^ 8), 255)>>
    ELSE <<BitOr(192, (length % (2 ^ 8)) \div (2 ^ 24)),
           BitAnd((length % (2 ^ 8)) \div (2 ^ 16), 255),
           BitAnd((length % (2 ^ 8)) \div (2 ^ 8), 255),
           BitAnd(length % (2 ^ 8), 255)>>

\* The bytes bitset_encoded_length_bytes writes.  The cast binds tighter than
\* the shift: (unsigned char)length >> 8 shifts the low byte of length.
bitset_encoded_length_bytes(length) ==
    IF length < 2 ^ 6
    THEN <<UnsignedChar(length)>>
    ELSE IF length < 2 ^ 14
    THEN <<BitOr(64, UnsignedChar(length) \div (2 ^ 8)),
           BitAnd(UnsignedChar(length), 255)>>
    ELSE IF length < 2 ^ 22
    THEN <<BitOr(128, UnsignedChar(length) \div (2 ^ 16)),
           BitAnd(UnsignedChar(length) \div (2 ^ 8), 255),
           BitAnd(UnsignedChar(length), 255)>>
    ELSE <<BitOr(192, UnsignedChar(length) \div (2 ^ 24)),
           BitAnd(UnsignedChar(length) \div (2 ^ 16), 255),
           BitAnd(UnsignedChar(length) \div (2 ^ 8), 255),
           BitAnd(UnsignedChar(length), 255)>>

\* buffer[0] & 0xC0 of the byte at index i.
LengthType(buffer, i) == BitAnd(buffer[i + 1], 192)

bitset_encoded_length_size(buffer, i) ==
    CASE LengthType(buffer, i) = 0   -> 1
      [] LengthType(buffer, i) = 64  -> 2
      [] LengthType(buffer, i) = 128 -> 3
      [] OTHER                       -> 4

bitset_encoded_length(buffer, i) ==
    CASE LengthType(buffer, i) = 0   -> buffer[i + 1]
      [] LengthType(buffer, i) = 64  ->
            BitAnd(buffer[i + 1], 63) * (2 ^ 8) + buffer[i + 2]
      [] LengthType(buffer, i) = 128 ->
            BitAnd(buffer[i + 1], 63) * (2 ^ 16) + buffer[i + 2] * (2 ^ 8) + buffer[i + 3]
      [] OTHER                       ->
            BitAnd(buffer[i + 1], 63) * (2 ^ 24) + buffer[i + 2] * (2 ^ 16)
            + buffer[i + 3] * (2 ^ 8) + buffer[i + 4]

\* sizeof(bitset_word)
SizeofWord == BITSET_WORD_LENGTH \div 8

\* (mutant) the bytes of a word are copied most significant first.
WordBytes_Swapped(w) ==
    <<(w.v \div (2 ^ 24)) + w.f * (2 ^ 7), (w.v \div (2 ^ 16)) % (2 ^ 8),
      (w.v \div (2 ^ 8)) % (2 ^ 8), w.v % (2 ^ 8)>>

\* The bytes of one word as memcpy copies them (least significant first).
WordBytes(w) ==
    <<w.v % (2 ^ 8), (w.v \div (2 ^ 8)) % (2 ^ 8), (w.v \div (2 ^ 16)) % (2 ^ 8),
      (w.v \div (2 ^ 24)) + w.f * (2 ^ 7)>>

\* The word an entry's bitset view reads at byte index i: (bitset_word *) buffer.
WordAt(buffer, i) ==
    Word(buffer[i + 4] \div (2 ^ 7),
         buffer[i + 1] + buffer[i + 2] * (2 ^ 8) + buffer[i + 3] * (2 ^ 16)
         + (buffer[i + 4] % (2 ^ 7)) * (2 ^ 24))

WordsAt(buffer, i, length) == [k \in 1..length |-> WordAt(buffer, i + (k - 1) * SizeofWord)]

RECURSIVE WordsBytes(_)
WordsBytes(ws) ==
    IF ws = <<>> THEN <<>> ELSE WordBytes(Head(ws)) \o WordsBytes(Tail(ws))

\* (mutant) a push at the tail offset is refused as well.
bitset_list_push_RejectDuplicate(c, b, offset) ==
    IF offset <= c.tail_offset
    THEN [list |-> c, exited |-> TRUE, b |-> b]
    ELSE LET length == c.length
             relative_offset == offset - c.tail_offset
             length_bytes == bitset_encoded_length_required_bytes(Len(b))
             offset_bytes == bitset_encoded_length_required_bytes(relative_offset)
             resized == bitset_list_resize([c EXCEPT !.count = c.count + 1],
                            length + length_bytes + offset_bytes + Len(b) * SizeofWord)
         IN  [list |-> [resized EXCEPT
                           !.tail = PointerAt(length),
                           !.tail_offset = offset,
                           !.buffer = c.buffer
                                      \o bitset_encoded_length_bytes(relative_offset)
                                      \o bitset_encoded_length_bytes(Len(b))
                                      \o WordsBytes(b)],
              exited |-> FALSE, b |-> b]

\* bitset_list_push: the list after the call, whether the process exited, and
\* the bitset b after the call (b is only read).
bitset_list_push(c, b, offset) ==
    IF offset < c.tail_offset
    THEN [list |-> c, exited |-> TRUE, b |-> b]
    ELSE LET length == c.length
             relative_offset == offset - c.tail_offset
             length_bytes == bitset_encoded_length_required_bytes(Len(b))
             offset_bytes == bitset_encoded_length_required_bytes(relative_offset)
             resized == bitset_list_resize([c EXCEPT !.count = c.count + 1],
                            length + length_bytes + offset_bytes + Len(b) * SizeofWord)
         IN  [list |-> [resized EXCEPT
                           !.tail = PointerAt(length),
                           !.tail_offset = offset,
                           !.buffer = c.buffer
                                      \o bitset_encoded_length_bytes(relative_offset)
                                      \o bitset_encoded_length_bytes(Len(b))
                                      \o WordsBytes(b)],
              exited |-> FALSE, b |-> b]

\* bitset_list_new_buffer: the list rebuilt from a copy of the bytes.  c->tail
\* is assigned in the loop only; uninit is the value the allocation left in it.
RECURSIVE NewBufferWalk(_, _)
NewBufferWalk(c, i) ==
    IF i >= c.length THEN c
    ELSE LET offset_bytes == bitset_encoded_length_size(c.buffer, i)
             at == i + offset_bytes
             length == bitset_encoded_length(c.buffer, at)
             length_bytes == bitset_encoded_length_size(c.buffer, at)
         IN  NewBufferWalk([c EXCEPT !.tail = PointerAt(i),
                                     !.tail_offset = @ + bitset_encoded_length(c.buffer, i),
                                     !.count = @ + 1],
                           i + offset_bytes + length_bytes + length * SizeofWord)

bitset_list_new_buffer(length, buffer, uninit) ==
    NewBufferWalk([length |-> length, size |-> length, count |-> 0, tail_offset |-> 0,
                   buffer |-> SubSeq(buffer, 1, length), tail |-> uninit], 0)

\* BITSET_LIST_START and BITSET_LIST_END: no bound.
BITSET_LIST_START == 0

BITSET_LIST_END == 0

NoIterator == [live |-> FALSE, length |-> 0, size |-> 0, offsets |-> <<>>, bitsets |-> <<>>]

bitset_list_iterator_resize(i, length) ==
    [i EXCEPT !.size = IF length > i.size THEN BITSET_NEXT_POW2(length) ELSE i.size,
              !.length = length]

\* offset >= start && (!end || offset < end)
InWindow(offset, start, end) == offset >= start /\ (end = 0 \/ offset < end)

\* The loop of bitset_list_iterator_new from byte index j on.  An entry's
\* bitset is a view: the index of its first word in the buffer, its length
\* and size.
RECURSIVE IteratorWalk(_, _, _, _, _, _)
IteratorWalk(c, start, end, j, offset, i) ==
    IF j >= c.length THEN i
    ELSE LET here == offset + bitset_encoded_length(c.buffer, j)
             offset_bytes == bitset_encoded_length_size(c.buffer, j)
             length == bitset_encoded_length(c.buffer, j + offset_bytes)
             length_bytes == bitset_encoded_length_size(c.buffer, j + offset_bytes)
             at == j + offset_bytes + length_bytes
             b == Len(i.offsets)
             next == IF InWindow(here, start, end)
                     THEN [bitset_list_iterator_resize(i, b + 1) EXCEPT
                              !.bitsets = Append(@, [words |-> at, length |-> length,
                                                     size |-> length]),
                              !.offsets = Append(@, here)]
                     ELSE i
         IN  IteratorWalk(c, start, end, at + length * SizeofWord, here, next)

bitset_list_iterator_new(c, start, end) ==
    IteratorWalk(c, start, end, 0, 0,
                 IF start = BITSET_LIST_START /\ end = BITSET_LIST_END
                 THEN [NoIterator EXCEPT !.live = TRUE, !.length = c.count, !.size = c.count]
                 ELSE [NoIterator EXCEPT !.live = TRUE])

\* (mutant) the entries of c are appended with their offsets as they are.
bitset_list_iterator_concat_NoShift(i, c, offset) ==
    IF c.length > 0
    THEN [bitset_list_iterator_resize(i, i.length + c.length) EXCEPT
             !.bitsets = i.bitsets \o c.bitsets,
             !.offsets = i.offsets \o c.offsets]
    ELSE i

\* bitset_list_iterator_concat: the iterator i after the call (c is freed).
bitset_list_iterator_concat(i, c, offset) ==
    IF c.length > 0
    THEN [bitset_list_iterator_resize(i, i.length + c.length) EXCEPT
             !.bitsets = i.bitsets \o c.bitsets,
             !.offsets = i.offsets \o [j \in 1..c.length |-> c.offsets[j] + offset]]
    ELSE i

\* The words a view reads in the buffer it borrows.
ViewWords(buffer, view) == WordsAt(buffer, view.words, view.length)

RECURSIVE RawCount(_, _, _)
RawCount(buffer, i, j) ==
    IF j = 0 THEN 0
    ELSE RawCount(buffer, i, j - 1) + bitset_count(ViewWords(buffer, i.bitsets[j]))

\* (mutant) the raw count is reported as the unique count too.
bitset_list_iterator_count_RawTwice(buffer, i) ==
    [raw |-> RawCount(buffer, i, i.length), unique |-> RawCount(buffer, i, i.length)]

\* bitset_list_iterator_count: *raw and *unique.
bitset_list_iterator_count(buffer, i) ==
    [raw |-> RawCount(buffer, i, i.length),
     unique |-> bitset_operation_count(
                    [j \in 1..i.length |->
                        BitsetStep(ViewWords(buffer, i.bitsets[j]), BITSET_OR)])]

(***************************************************************************)
(* The bitset under mutation, next to a naive reference set of offsets.    *)
(* last records the latest call: the value passed, the value returned,     *)
(* the kind of place the offset fell in and whether the stream it was      *)
(* applied to was canonical.                                               *)
(***************************************************************************)
\* The offsets the calls are made at: the first bit of every block up to
\* MaxBlock and the last bit of the blocks of PairBlocks.
Offsets == {Offset(blk, 0) : blk \in 0..MaxBlock}
            \cup {Offset(blk, BITSET_LITERAL_LENGTH - 1) : blk \in PairBlocks}

\* The offsets the bitset is read at: every bit of every block up to one
\* block past MaxBlock.
AllBlocks == 0..(MaxBlock + 1)

AllOffsets == 0..Offset(MaxBlock + 1, BITSET_LITERAL_LENGTH - 1)

NoCall == [kind |-> "new", v |-> FALSE, ret |-> FALSE, canonical |-> TRUE]

NoCopy == [made |-> FALSE, list |-> bitset_list_new]

NoPush == [made |-> FALSE, offset |-> 0, b |-> <<>>, after |-> <<>>]

NoResult == [done |-> FALSE, words |-> <<>>, count |-> 0]

InitBitset ==
    /\ words = <<>>
    /\ ref = {}
    /\ last = NoCall

InitOperation ==
    /\ ops = <<>>
    /\ inner = <<>>
    /\ building = FALSE
    /\ result = NoResult

InitList ==
    /\ list = bitset_list_new
    /\ exited = FALSE
    /\ entries = <<>>
    /\ call = NoPush
    /\ copy = NoCopy

NoVarint == [phase |-> "none", v |-> 0, bytes |-> <<>>, size |-> 0, decoded |-> 0]

InitVarint == varint = NoVarint

NoCounts == [made |-> FALSE, raw |-> 0, unique |-> 0]

NoIteratorCall == [op |-> "none", start |-> 0, end |-> 0, shift |-> 0]

InitIterator ==
    /\ iter = NoIterator
    /\ iter2 = NoIterator
    /\ counts = NoCounts
    /\ iterCall = NoIteratorCall

NoFill == [op |-> "none", args |-> <<>>, w |-> Lit(0), length |-> 0, position |-> 0]

InitCodec == codec = NoFill

NoWide == [op |-> "none", operands |-> <<>>, offsets |-> <<>>, exited |-> FALSE]

InitWide == wide = NoWide

Init ==
    /\ InitBitset /\ InitOperation /\ InitList /\ InitVarint /\ InitIterator /\ InitCodec
    /\ InitWide

SetTo(o, v) ==
    LET r == bitset_set_to(words, o, v)
    IN  /\ words' = r.words
        /\ ref' = IF v THEN ref \cup {o} ELSE ref \ {o}
        /\ last' = [kind |-> Locate(words, 1, o \div BITSET_LITERAL_LENGTH).kind,
                     v |-> v, ret |-> r.ret, canonical |-> Canonical(words)]
        /\ UNCHANGED <<opVars, listVars, varintVars, iterVars, codecVars, wideVars>>

Set == \E o \in Offsets : SetTo(o, TRUE)

Unset == \E o \in Offsets : SetTo(o, FALSE)

Next == Set \/ Unset

Spec == Init /\ [][Next]_vars

(***************************************************************************)
(* Properties of the bitset engine.                                        *)
(***************************************************************************)
SetMin(S) == CHOOSE x \in S : \A y \in S : x <= y

SetMax(S) == CHOOSE x \in S : \A y \in S : y <= x

\* The set a word stream decodes to, over the offsets of the model.
\* (bitset_get at every offset of AllOffsets, one walk per block.)
DecodedBlock(ws, blk) ==
    LET loc == Locate(ws, 1, blk)
    IN  IF loc.kind \in {"past", "clean"} THEN {}
        ELSE {Offset(blk, bit) :
                 bit \in {b \in 0..(BITSET_LITERAL_LENGTH - 1) : GetIn(ws, loc, b)}}

Decoded(ws) == UNION {DecodedBlock(ws, blk) : blk \in AllBlocks}

KindOf(ws, o) == Locate(ws, 1, o \div BITSET_LITERAL_LENGTH).kind

\* C1: bitset_set_to(b, o, v) returns the value bitset_get(b, o) had right
\* before the call, and bitset_get(b, o) right after the call is v.
C1_SetReturnsOldStoresNew ==
    [][\A o \in Offsets :
          (ref' \in {ref \cup {o}, ref \ {o}} /\ SetTo(o, last'.v))
              => /\ last'.ret = bitset_get(words, o)
                 /\ bitset_get(words', o) = last'.v]_vars

\* An unset has just returned true: the bit was set and was cleared.
C1_Witness ==
    /\ last.kind # "new"
    /\ ~last.v
    /\ last.ret
    /\ words # <<>>

\* C2: after every step the compressed bitset and the naive reference set
\* agree on get at every offset, on count, on min and on max.
C2_AgreesWithReference ==
    /\ Decoded(words) = ref
    /\ bitset_count(words) = Cardinality(ref)
    /\ bitset_min(words) = (IF ref = {} THEN 0 ELSE SetMin(ref))
    /\ bitset_max(words) = (IF ref = {} THEN 0 ELSE SetMax(ref))

\* Three offsets are set after an unset removed another one.
C2_Witness ==
    /\ Cardinality(ref) >= 3
    /\ last.kind # "new"
    /\ ~last.v
    /\ last.ret

\* C5: with no set bit min and max are 0; otherwise min and max are set
\* bits, no set bit lies below min or above max, and min <= max.
C5_MinMax ==
    LET bits == Decoded(words)
        lo == bitset_min(words)
        hi == bitset_max(words)
    IN  IF bits = {}
        THEN lo = 0 /\ hi = 0
        ELSE /\ bitset_get(words, lo)
             /\ bitset_get(words, hi)
             /\ \A o \in bits : lo <= o /\ o <= hi
             /\ lo <= hi

\* Two set bits in different words, the lower one not in the first word.
C5_Witness ==
    /\ bitset_count(words) >= 2
    /\ bitset_min(words) < bitset_max(words)
    /\ Len(words) >= 2
    /\ bitset_min(words) >= BITSET_LITERAL_LENGTH

\* C6: an unset at an offset past the logical end of the stream or inside
\* the clean span of a fill returns false and leaves the word stream as it
\* was; on an empty bitset the length stays 0.
C6_UnsetOfClearIsNoOp ==
    [][\A o \in Offsets :
          (~last'.v /\ ref' = ref \ {o} /\ KindOf(words, o) \in {"past", "clean"}
              /\ SetTo(o, FALSE))
              => /\ words' = words
                 /\ Len(words') = Len(words)
                 /\ last'.ret = FALSE]_vars

\* An unset has just fallen in the clean span of a fill of a stream that
\* holds set bits.
C6_Witness ==
    /\ last.kind = "clean"
    /\ ~last.v
    /\ bitset_count(words) >= 1

RECURSIVE Ascending(_)
Ascending(S) ==
    IF S = {} THEN <<>>
    ELSE Append(Ascending(S \ {SetMax(S)}), SetMax(S))

RECURSIVE BitsetFrom(_)
BitsetFrom(calls) ==
    IF calls = <<>> THEN <<>>
    ELSE LET c == calls[Len(calls)]
         IN  bitset_set_to(BitsetFrom(SubSeq(calls, 1, Len(calls) - 1)), c[1], c[2]).words

OperandCalls ==
    { << <<Offset(0, 0), TRUE>>, <<Offset(0, BITSET_LITERAL_LENGTH - 1), TRUE>>,
         <<Offset(2, 0), TRUE>> >>,
      << <<Offset(2, 0), TRUE>>, <<Offset(0, 0), TRUE>> >>,
      << <<Offset(0, BITSET_LITERAL_LENGTH - 1), TRUE>>, <<Offset(1, 0), TRUE>> >> }

Operands == {BitsetFrom(c) : c \in OperandCalls}

RECURSIVE Leaves(_)
Leaves(o) ==
    IF o = <<>> THEN 0
    ELSE Leaves(Tail(o)) + (IF Head(o).nested THEN Len(Head(o).steps) ELSE 1)

Room == Leaves(ops) + Len(inner) < MaxSteps

OperationNew ==
    \E b \in Operands :
        /\ ops = <<>>
        /\ ops' = <<BitsetStep(b, BITSET_OR)>>
        /\ UNCHANGED <<inner, building, result, bitsetVars, listVars, varintVars, iterVars, codecVars, wideVars>>

OperationAdd ==
    \E b \in Operands, type \in OperationTypes :
        /\ ops # <<>>
        /\ ~result.done
        /\ Room
        /\ IF building
           THEN inner' = Append(inner, BitsetStep(b, type)) /\ ops' = ops
           ELSE ops' = Append(ops, BitsetStep(b, type)) /\ inner' = inner
        /\ UNCHANGED <<building, result, bitsetVars, listVars, varintVars, iterVars, codecVars, wideVars>>

NestedNew ==
    \E b \in Operands :
        /\ ops # <<>>
        /\ ~result.done
        /\ ~building
        /\ \A i \in 1..Len(ops) : ~ops[i].nested
        /\ Room
        /\ inner' = <<BitsetStep(b, BITSET_OR)>>
        /\ building' = TRUE
        /\ UNCHANGED <<ops, result, bitsetVars, listVars, varintVars, iterVars, codecVars, wideVars>>

OperationAddNested ==
    \E type \in OperationTypes :
        /\ building
        /\ ops' = Append(ops, NestedStep(inner, type))
        /\ inner' = <<>>
        /\ building' = FALSE
        /\ UNCHANGED <<result, bitsetVars, listVars, varintVars, iterVars, codecVars, wideVars>>

OperationExec ==
    /\ ops # <<>>
    /\ ~building
    /\ ~result.done
    /\ result' = [done |-> TRUE, words |-> bitset_operation_exec(ops),
                  count |-> bitset_operation_count(ops)]
    /\ UNCHANGED <<ops, inner, building, bitsetVars, listVars, varintVars, iterVars, codecVars, wideVars>>

NextOp ==
    OperationNew \/ OperationAdd \/ NestedNew \/ OperationAddNested \/ OperationExec

SpecOp == Init /\ [][NextOp]_vars

\* The set operators of the fold.
SetCombine(type, a, b) ==
    CASE type = BITSET_OR     -> a \cup b
      [] type = BITSET_AND    -> a \cap b
      [] type = BITSET_XOR    -> (a \ b) \cup (b \ a)
      [] type = BITSET_ANDNOT -> a \ b

\* The set of offsets of each operand bitset.
OperandSet == [b \in Operands |-> Decoded(b)]

\* The left fold over the operands' sets, a nested planner standing for its
\* own fold.
RECURSIVE SetFold(_)
SetFold(o) ==
    IF o = <<>> THEN {}
    ELSE LET step == o[Len(o)]
         IN  SetCombine(step.type, SetFold(SubSeq(o, 1, Len(o) - 1)),
                        IF step.nested THEN SetFold(step.steps) ELSE OperandSet[step.b])

\* C7: the result of exec holds exactly the offsets of the left fold
\* ((P op1 X1) op2 X2) ... of the planner's steps, a nested planner standing
\* for its evaluated result, and count is the number of offsets of that fold.
C7_ExecIsLeftFold ==
    result.done =>
        LET fold == SetFold(ops)
        IN  /\ Decoded(result.words) = fold
            /\ bitset_count(result.words) = Cardinality(fold)
            /\ result.count = Cardinality(fold)

C7_Witness ==
    /\ result.done
    /\ Len(ops) = 3
    /\ ops[2].nested /\ Len(ops[2].steps) = 1
    /\ ops[2].type = BITSET_ANDNOT
    /\ ops[3].type = BITSET_XOR
    /\ result.count = 2

SameResult(x, y) ==
    /\ Decoded(x) = Decoded(y)
    /\ bitset_count(x) = bitset_count(y)

AllBitsets(o) == \A i \in 1..Len(o) : ~o[i].nested

\* C8: A op B and B op A give equal results for op in {AND, OR}; (A op B) op C
\* and A op (B op C), the latter through a nested planner, give equal results;
\* (A XOR B) XOR B gives the offsets of A.
C8_PlannerLaws ==
    (result.done /\ AllBitsets(ops)) =>
        /\ (Len(ops) = 2 /\ ops[2].type \in {BITSET_AND, BITSET_OR}) =>
              SameResult(result.words,
                         bitset_operation_exec(<<BitsetStep(ops[2].b, BITSET_OR),
                                                 BitsetStep(ops[1].b, ops[2].type)>>))
        /\ (Len(ops) = 3 /\ ops[2].type = ops[3].type
                         /\ ops[2].type \in {BITSET_AND, BITSET_OR}) =>
              SameResult(result.words,
                         bitset_operation_exec(
                             <<ops[1],
                               NestedStep(<<BitsetStep(ops[2].b, BITSET_OR), ops[3]>>,
                                          ops[2].type)>>))
        /\ (Len(ops) = 3 /\ ops[2].type = BITSET_XOR /\ ops[3].type = BITSET_XOR
                         /\ ops[2].b = ops[3].b) =>
              /\ Decoded(result.words) = OperandSet[ops[1].b]
              /\ result.count = bitset_count(ops[1].b)

C8_Witness ==
    /\ result.done
    /\ AllBitsets(ops)
    /\ Len(ops) = 3
    /\ ops[2].type = BITSET_XOR /\ ops[3].type = BITSET_XOR
    /\ ops[2].b = ops[3].b
    /\ OperandSet[ops[2].b] \cap OperandSet[ops[1].b] # {}
    /\ OperandSet[ops[2].b] # OperandSet[ops[1].b]
    /\ result.count = 3

(***************************************************************************)
(* The list under pushes.  `entries' records the accepted pushes, `call'   *)
(* the arguments of the last call.                                         *)
(***************************************************************************)
\* Bits 0 and 1 of 2^5 consecutive blocks, set in ascending order: an empty
\* fill and a two-bit literal per block.
LongBitset ==
    [i \in 1..(2 ^ 6) |->
        IF i % 2 = 1 THEN BITSET_CREATE_EMPTY_FILL(0)
        ELSE WOr(BITSET_CREATE_LITERAL(0), BITSET_CREATE_LITERAL(1))]

ListBitsets == {<<>>, bitset_new_bits(<<Offset(0, 10)>>), LongBitset}

ListOffsets == {0, 3, 2 ^ 6 + 3, 2 ^ 14, 2 ^ 22 + 2 ^ 6}

Push ==
    \E b \in ListBitsets, offset \in ListOffsets :
        LET r == bitset_list_push(list, b, offset)
        IN  /\ ~exited
            /\ ~copy.made
            /\ list.count < MaxPush
            /\ list' = r.list
            /\ exited' = r.exited
            /\ entries' = IF r.exited THEN entries
                          ELSE Append(entries, [offset |-> offset, b |-> b])
            /\ call' = [made |-> TRUE, offset |-> offset, b |-> b, after |-> r.b]
            /\ UNCHANGED <<copy, bitsetVars, opVars, varintVars, iterVars, codecVars, wideVars>>

\* The values an unassigned pointer field may hold.
Indeterminate == {NullPointer, PointerAt(0), PointerAt(1)}

\* bitset_list_new_buffer(list->length, list->buffer), as the list test does
\* with a copy of the bytes.
NewBuffer ==
    \E uninit \in Indeterminate :
        /\ ~exited
        /\ ~copy.made
        /\ copy' = [made |-> TRUE,
                    list |-> bitset_list_new_buffer(list.length, list.buffer, uninit)]
        /\ UNCHANGED <<list, exited, entries, call, bitsetVars, opVars, varintVars, iterVars, codecVars, wideVars>>

NextList == Push

SpecList == Init /\ [][NextList]_vars

\* The list under pushes, then read back from its buffer.
NextCopy == Push \/ NewBuffer

SpecCopy == Init /\ [][NextCopy]_vars

\* The absolute offsets of the entries, read from the buffer in order.
RECURSIVE EntryOffsets(_, _, _)
EntryOffsets(buffer, i, offset) ==
    IF i >= Len(buffer) THEN <<>>
    ELSE LET here == offset + bitset_encoded_length(buffer, i)
             at == i + bitset_encoded_length_size(buffer, i)
             length == bitset_encoded_length(buffer, at)
         IN  <<here>> \o EntryOffsets(buffer,
                             at + bitset_encoded_length_size(buffer, at) + length * SizeofWord,
                             here)

NonDecreasing(s) == \A i \in 1..(Len(s) - 1) : s[i] <= s[i + 1]

\* C9: a push with offset < tail_offset terminates the process with every
\* field and byte of the list as before the call; a push with offset =
\* tail_offset is accepted; the offsets of the entries, as pushed and as read
\* from the buffer, are non-decreasing in buffer order.
C9_PushOrder ==
    /\ [][LET offset == call'.offset
          IN  /\ offset < list.tail_offset => (exited' /\ list' = list)
              /\ offset = list.tail_offset =>
                    (~exited' /\ list'.count = list.count + 1
                              /\ list'.tail_offset = list.tail_offset)]_vars
    /\ [](/\ NonDecreasing([i \in 1..Len(entries) |-> entries[i].offset])
          /\ Len(entries) = list.count
          /\ NonDecreasing(EntryOffsets(list.buffer, 0, 0)))

C9_Witness ==
    /\ exited
    /\ list.count = 2
    /\ entries[1].offset = entries[2].offset
    /\ entries[1].offset > 0
    /\ call.offset < list.tail_offset

\* C10: an accepted push adds one to count, sets tail_offset to the offset,
\* points tail at the byte at the previous length, and grows length by the
\* bytes of the two varints written plus four bytes per word of b.
C10_AcceptedPush ==
    [][~exited' =>
          LET offset == call'.offset
              b == call'.b
          IN  /\ list'.count = list.count + 1
              /\ list'.tail_offset = offset
              /\ list'.tail = PointerAt(list.length)
              /\ list'.length = list.length
                                + Len(bitset_encoded_length_bytes(offset - list.tail_offset))
                                + Len(bitset_encoded_length_bytes(Len(b)))
                                + 4 * Len(b)
              /\ Len(list'.buffer) = list'.length]_vars

C10_Witness ==
    /\ ~exited
    /\ list.count = 2
    /\ Len(call.b) = 2 ^ 6
    /\ call.offset - entries[1].offset = 2 ^ 6
    /\ list.tail.index > 0
    /\ list.length = list.tail.index + 2 + 2 + 4 * (2 ^ 6)

VarintValues ==
    (0..(2 ^ 6 + 2))
    \cup {2 ^ k + d : k \in 7..29, d \in {0 - 1, 0, 1}}
    \cup {2 ^ 30 - 1}

Encode ==
    \E v \in VarintValues :
        /\ varint.phase = "none"
        /\ varint' = [NoVarint EXCEPT !.phase = "encoded", !.v = v,
                                      !.bytes = bitset_encoded_length_bytes(v)]
        /\ UNCHANGED <<bitsetVars, opVars, listVars, iterVars, codecVars, wideVars>>

Decode ==
    /\ varint.phase = "encoded"
    /\ varint' = [varint EXCEPT !.phase = "decoded",
                                !.size = bitset_encoded_length_size(varint.bytes, 0),
                                !.decoded = bitset_encoded_length(varint.bytes, 0)]
    /\ UNCHANGED <<bitsetVars, opVars, listVars, iterVars, codecVars, wideVars>>

NextVarint == Encode \/ Decode

SpecVarint == Init /\ [][NextVarint]_vars

\* The bytes of v in the layout of the table: the tag in the top two bits of
\* the first byte, the high bits of v below it, the rest most significant
\* byte first.
VarintLayout(v) ==
    IF v < 2 ^ 6 THEN <<v>>
    ELSE IF v < 2 ^ 14 THEN <<64 + v \div (2 ^ 8), v % (2 ^ 8)>>
    ELSE IF v < 2 ^ 22
    THEN <<128 + v \div (2 ^ 16), (v \div (2 ^ 8)) % (2 ^ 8), v % (2 ^ 8)>>
    ELSE <<192 + v \div (2 ^ 24), (v \div (2 ^ 16)) % (2 ^ 8),
           (v \div (2 ^ 8)) % (2 ^ 8), v % (2 ^ 8)>>

\* C12: the bytes written for v hold v in the layout of the table, and
\* decoding them returns v, for every v up to 2^30 - 1.
C12_VarintRoundTrip ==
    varint.phase = "decoded" =>
        /\ varint.bytes = VarintLayout(varint.v)
        /\ varint.decoded = varint.v

\* C13: the encoder writes 1, 2, 3 or 4 bytes for v below 2^6, 2^14, 2^22 or
\* not, the top two bits of the first byte are the number of bytes less one,
\* and the size read from the bytes is bitset_encoded_length_required_bytes(v).
C13_VarintSize ==
    varint.phase = "decoded" =>
        /\ Len(varint.bytes) = (IF varint.v < 2 ^ 6 THEN 1
                                ELSE IF varint.v < 2 ^ 14 THEN 2
                                ELSE IF varint.v < 2 ^ 22 THEN 3 ELSE 4)
        /\ varint.bytes[1] \div (2 ^ 6) = Len(varint.bytes) - 1
        /\ varint.size = Len(varint.bytes)
        /\ varint.size = bitset_encoded_length_required_bytes(varint.v)

C13_Witness ==
    /\ varint.phase = "decoded"
    /\ varint.v = 2 ^ 22
    /\ varint.size = 4
    /\ varint.bytes[1] = 192

\* The entries a full-range iteration yields: absolute offset and words.
Iteration(c) ==
    LET i == bitset_list_iterator_new(c, BITSET_LIST_START, BITSET_LIST_END)
    IN  [j \in 1..i.length |->
            [offset |-> i.offsets[j], words |-> ViewWords(c.buffer, i.bitsets[j])]]

\* C14: the list rebuilt by bitset_list_new_buffer from the length and the
\* bytes of a list built by pushes has the same count, the same tail_offset,
\* tail at the same index, and the same full-range iteration.
C14_BufferRoundTrip ==
    copy.made =>
        /\ copy.list.count = list.count
        /\ copy.list.tail_offset = list.tail_offset
        /\ copy.list.tail = list.tail
        /\ Iteration(copy.list) = Iteration(list)

(***************************************************************************)
(* Iterators over a list.  The list is built by pushes, then iterators are *)
(* taken over windows of it, a second iterator is concatenated to the      *)
(* first, and the first is counted.  The list is not pushed to while an    *)
(* iterator is live.                                                       *)
(***************************************************************************)
IterBitsets == {bitset_new_bits(<<Offset(0, 10)>>), bitset_new_bits(<<Offset(0, 10), Offset(1, 9)>>)}

IterOffsets == {3, 10, 2 ^ 8 + 3}

IterWindows == {0, 3, 4} \X {0, 10}

OtherWindows == {<<0, 0>>, <<3, 10>>}

IterShifts == {0, 10}

IterPush ==
    \E b \in IterBitsets, offset \in IterOffsets :
        LET r == bitset_list_push(list, b, offset)
        IN  /\ ~exited
            /\ ~iter.live
            /\ list.count < MaxPush
            /\ list' = r.list
            /\ exited' = r.exited
            /\ entries' = IF r.exited THEN entries
                          ELSE Append(entries, [offset |-> offset, b |-> b])
            /\ call' = [made |-> TRUE, offset |-> offset, b |-> b, after |-> r.b]
            /\ UNCHANGED <<copy, bitsetVars, opVars, varintVars, iterVars, codecVars, wideVars>>

IteratorNew ==
    \E w \in IterWindows :
        /\ ~exited
        /\ ~iter.live
        /\ iter' = bitset_list_iterator_new(list, w[1], w[2])
        /\ iterCall' = [op |-> "new", start |-> w[1], end |-> w[2], shift |-> 0]
        /\ UNCHANGED <<iter2, counts, bitsetVars, opVars, listVars, varintVars, codecVars, wideVars>>

IteratorOther ==
    \E w \in OtherWindows :
        /\ iter.live
        /\ iterCall.op = "new"
        /\ ~counts.made
        /\ iter2' = bitset_list_iterator_new(list, w[1], w[2])
        /\ iterCall' = [op |-> "second", start |-> w[1], end |-> w[2], shift |-> 0]
        /\ UNCHANGED <<iter, counts, bitsetVars, opVars, listVars, varintVars, codecVars, wideVars>>

IteratorConcat ==
    \E shift \in IterShifts :
        /\ iter.live
        /\ iter2.live
        /\ ~counts.made
        /\ iter' = bitset_list_iterator_concat(iter, iter2, shift)
        /\ iter2' = NoIterator
        /\ iterCall' = [iterCall EXCEPT !.op = "concat", !.shift = shift]
        /\ UNCHANGED <<counts, bitsetVars, opVars, listVars, varintVars, codecVars, wideVars>>

IteratorCount ==
    /\ iter.live
    /\ ~iter2.live
    /\ ~counts.made
    /\ counts' = [made |-> TRUE,
                  raw |-> bitset_list_iterator_count(list.buffer, iter).raw,
                  unique |-> bitset_list_iterator_count(list.buffer, iter).unique]
    /\ UNCHANGED <<iter, iter2, iterCall, bitsetVars, opVars, listVars, varintVars, codecVars, wideVars>>

NextIter == IterPush \/ IteratorNew \/ IteratorOther \/ IteratorConcat \/ IteratorCount

SpecIter == Init /\ [][NextIter]_vars

\* The entries of an iterator: absolute offset and the words of the view.
IteratorEntries(buffer, i) ==
    [j \in 1..Len(i.offsets) |->
        [offset |-> i.offsets[j], words |-> ViewWords(buffer, i.bitsets[j])]]

\* C15: a new iterator over [start, end) holds exactly the pushed entries
\* whose offset is in the window (end = 0: no upper bound), in buffer order,
\* with their absolute offsets and their words, and its length is their number.
C15_IteratorWindow ==
    (iter.live /\ iterCall.op = "new") =>
        LET want == SelectSeq(entries,
                        LAMBDA e : /\ e.offset >= iterCall.start
                                   /\ (iterCall.end = BITSET_LIST_END \/ e.offset < iterCall.end))
        IN  /\ iter.length = Len(want)
            /\ IteratorEntries(list.buffer, iter)
                   = [j \in 1..Len(want) |-> [offset |-> want[j].offset, words |-> want[j].b]]

\* C16: after concat(a, b, shift), a holds its previous entries in order
\* with their offsets, then the entries of b in order, each with its offset
\* plus shift and the same view; the length of a is the sum of the lengths.
C16_Concat ==
    [][(iterCall'.op = "concat" /\ iterCall.op = "second") =>
          /\ iter'.length = iter.length + iter2.length
          /\ Len(iter'.offsets) = iter'.length
          /\ Len(iter'.bitsets) = iter'.length
          /\ \A j \in 1..iter.length :
                /\ iter'.offsets[j] = iter.offsets[j]
                /\ iter'.bitsets[j] = iter.bitsets[j]
          /\ \A j \in 1..iter2.length :
                /\ iter'.offsets[iter.length + j] = iter2.offsets[j] + iterCall'.shift
                /\ iter'.bitsets[iter.length + j] = iter2.bitsets[j]
          /\ iter2.length = 0 => iter' = iter]_vars

C16_Witness ==
    /\ iterCall.op = "concat"
    /\ iterCall.shift = 10
    /\ iter.length = 3
    /\ iter.offsets = <<3, 13, 20>>
    /\ iter.bitsets[1] = iter.bitsets[2]
    /\ iter.bitsets[2] # iter.bitsets[3]

RECURSIVE SumCounts(_, _, _)
SumCounts(buffer, i, j) ==
    IF j = 0 THEN 0
    ELSE SumCounts(buffer, i, j - 1)
         + Cardinality(Decoded(ViewWords(buffer, i.bitsets[j])))

\* C17: raw is the sum over the entries of the number of offsets set in the
\* entry, unique is the number of offsets set in at least one entry, unique
\* is at most raw, both are 0 for an empty iterator, and the call leaves the
\* iterator and the list as they were.
C17_IteratorCount ==
    /\ [](counts.made =>
            /\ counts.raw = SumCounts(list.buffer, iter, iter.length)
            /\ counts.unique =
                  Cardinality(UNION {Decoded(ViewWords(list.buffer, iter.bitsets[j])) :
                                        j \in 1..iter.length})
            /\ counts.unique <= counts.raw
            /\ iter.length = 0 => (counts.raw = 0 /\ counts.unique = 0))
    /\ [][counts'.made => (iter' = iter /\ list' = list)]_vars

C17_Witness ==
    /\ counts.made
    /\ iter.length = 3
    /\ counts.raw = 5
    /\ counts.unique = 2

(***************************************************************************)
(* The fill word codec as a machine: a fill word given as an array element *)
(* (bitset_new_array in the tests) is read with the header's macros, and a *)
(* fill word is built from a length and a bit index.                       *)
(***************************************************************************)
\* The fill words read: every value of the five bits above bit 24, a few
\* lengths, with and without bit 30.  0x82000001 and 0x8C000011 are among
\* them.
FillWords ==
    {Word(1, (top * (2 ^ 30)) + (field * (2 ^ 25)) + len) :
        top \in {0, 1}, field \in 0 .. 31, len \in {0, 1, 17}}

FillLengths == {0, 1, 17, BITSET_MAX_LENGTH}

\* The bit indexes given to BITSET_CREATE_FILL: 0 to 30, and 31 for no bit.
FillBits == 0 .. BITSET_LITERAL_LENGTH

FillRead ==
    \E w \in FillWords :
        /\ BITSET_IS_FILL_WORD(w)
        /\ codec' = [op |-> "read", args |-> <<w>>, w |-> w,
                    length |-> BITSET_GET_LENGTH(w),
                    position |-> BITSET_GET_POSITION(w)]
        /\ UNCHANGED <<bitsetVars, opVars, listVars, varintVars, iterVars, wideVars>>

FillCreate ==
    \E len \in FillLengths, bit \in FillBits :
        LET w == BITSET_CREATE_FILL(len, bit)
        IN  /\ codec' = [op |-> "create", args |-> <<len, bit>>, w |-> w,
                        length |-> BITSET_GET_LENGTH(w),
                        position |-> BITSET_GET_POSITION(w)]
            /\ UNCHANGED <<bitsetVars, opVars, listVars, varintVars, iterVars, wideVars>>

NextCodec == FillRead \/ FillCreate

SpecCodec == Init /\ [][NextCodec]_vars

\* The fill words given a new position: with no bit absorbed, and with bit 0,
\* 1, 4 or 30 absorbed.
PositionWords ==
    {BITSET_CREATE_FILL(len, bit) :
        len \in {0, 17}, bit \in {0, 1, 4, BITSET_LITERAL_LENGTH - 1, BITSET_LITERAL_LENGTH}}

\* BITSET_SET_POSITION(word, pos + 1) on a fill word, for a bit index pos.
FillSetPosition ==
    \E word \in PositionWords, pos \in 0 .. (BITSET_LITERAL_LENGTH - 1) :
        LET w == BITSET_SET_POSITION(word, pos + 1)
        IN  /\ codec' = [op |-> "set_position", args |-> <<word, pos>>, w |-> w,
                        length |-> BITSET_GET_LENGTH(w),
                        position |-> BITSET_GET_POSITION(w)]
            /\ UNCHANGED <<bitsetVars, opVars, listVars, varintVars, iterVars, wideVars>>

NextPosition == FillCreate \/ FillSetPosition

SpecPosition == Init /\ [][NextPosition]_vars

\* C18: for every fill word w, the length is the low 25 bits of w and the
\* position is the 5-bit field in bits 25..29, so that the largest length
\* is 2^25 - 1; the word 0x82000001 is a fill of length 1 with position 1
\* and 0x8C000011 is a fill of length 17 with a position that is not 0.
C18_FillLayout ==
    codec.op # "none" =>
        /\ BITSET_MAX_LENGTH = (2 ^ 25) - 1
        /\ BITSET_MAX_LENGTH = BITSET_LENGTH_MASK
        /\ codec.length = codec.w.v % (2 ^ 25)
        /\ codec.position = (codec.w.v \div (2 ^ 25)) % (2 ^ 5)
        /\ (codec.op = "read" /\ codec.w = Word(1, (2 ^ 25) + 1)) =>
            (codec.length = 1 /\ codec.position = 1)
        /\ (codec.op = "read" /\ codec.w = Word(1, (6 * (2 ^ 25)) + 17)) =>
            (codec.length = 17 /\ codec.position # 0)

(***************************************************************************)
(* Setting a bit past the logical end of the stream.  The calls of the     *)
(* bitset machine, and one more at the first bit of the first block that   *)
(* one fill cannot reach from the empty stream.                            *)
(***************************************************************************)
\* The offsets of the calls in test_suite_set that fall past the end: 0,
\* 31 and 93 set, 100 unset.
PastOffsets == {0, Offset(1, 0), Offset(3, 0), Offset(3, 7)}

FarOffsets == {Offset(BITSET_MAX_LENGTH + 1, 0)}

SetNear == \E o \in PastOffsets : SetTo(o, TRUE)

UnsetNear == \E o \in PastOffsets : SetTo(o, FALSE)

SetFar == \E o \in FarOffsets : SetTo(o, TRUE)

NextFar == SetNear \/ UnsetNear \/ SetFar

SpecFar == Init /\ [][NextFar]_vars

\* The call made is a set at o, and o lies past the blocks words covers.
SetPast(o) ==
    /\ o \notin ref
    /\ ref' = ref \cup {o}
    /\ LogicalLength(words) <= o \div BITSET_LITERAL_LENGTH
    /\ SetTo(o, TRUE)

\* The clean blocks between the logical end of words and the block of o.
Gap(o) == (o \div BITSET_LITERAL_LENGTH) - LogicalLength(words)

\* The fill with P = 0 at the tail takes the bit of o as its position.
AbsorbedAtTail(o) ==
    LET n == Len(words)
    IN  /\ Len(words') = n
        /\ SubSeq(words', 1, n - 1) = SubSeq(words, 1, n - 1)
        /\ BITSET_IS_FILL_WORD(words'[n])
        /\ BITSET_GET_LENGTH(words'[n]) = BITSET_GET_LENGTH(words[n])
        /\ BITSET_GET_POSITION(words'[n]) = (o % BITSET_LITERAL_LENGTH) + 1

\* words is kept and exactly one fill is appended: its length is the gap,
\* its position holds the bit of o.
AppendedOneFill(o) ==
    LET n == Len(words)
    IN  /\ Len(words') = n + 1
        /\ SubSeq(words', 1, n) = words
        /\ BITSET_IS_FILL_WORD(words'[n + 1])
        /\ BITSET_GET_LENGTH(words'[n + 1]) = Gap(o)
        /\ BITSET_GET_POSITION(words'[n + 1]) = (o % BITSET_LITERAL_LENGTH) + 1

\* words is kept and a chain of fills is appended: fills of the largest
\* length with P = 0, then one fill with the rest of the gap and the bit.
RECURSIVE ChainLength(_, _)
ChainLength(ws, i) ==
    IF i > Len(ws) THEN 0 ELSE BITSET_GET_LENGTH(ws[i]) + ChainLength(ws, i + 1)

AppendedChain(o) ==
    LET n == Len(words)
        m == Len(words')
    IN  /\ m > n + 1
        /\ SubSeq(words', 1, n) = words
        /\ \A i \in (n + 1) .. (m - 1) :
                /\ IsEmptyFill(words'[i])
                /\ BITSET_GET_LENGTH(words'[i]) = BITSET_MAX_LENGTH
        /\ BITSET_IS_FILL_WORD(words'[m])
        /\ BITSET_GET_POSITION(words'[m]) = (o % BITSET_LITERAL_LENGTH) + 1
        /\ ChainLength(words', n + 1) = Gap(o)

\* The set at 31 on the empty bitset.
SetOnEmpty(o) ==
    (words = <<>> /\ o = Offset(1, 0)) =>
        /\ Len(words') = 1
        /\ BITSET_IS_FILL_WORD(words'[1])
        /\ BITSET_GET_LENGTH(words'[1]) = 1
        /\ BITSET_GET_POSITION(words'[1]) = 1
        /\ bitset_count(words') = 1
        /\ bitset_get(words', Offset(1, 0))
        /\ ~bitset_get(words', Offset(0, BITSET_LITERAL_LENGTH - 1))
        /\ bitset_min(words') = Offset(1, 0)
        /\ bitset_max(words') = Offset(1, 0)

TailTakesBit(o) == Gap(o) = 0 /\ Len(words) > 0 /\ IsEmptyFill(words[Len(words)])

PartitionOffsets == {Offset(1, 0), Offset(1, 1), Offset(2, 0)}

SetPartition == \E o \in PartitionOffsets : SetTo(o, TRUE)

UnsetPartition == \E o \in PartitionOffsets : SetTo(o, FALSE)

NextPartition == SetPartition \/ UnsetPartition

SpecPartition == Init /\ [][NextPartition]_vars

\* The one-word stream of a fill of two clean blocks with no absorbed bit.
SeedStream == <<BITSET_CREATE_EMPTY_FILL(2)>>

\* C20: from the one-word stream [fill L=2 P=0], a set at 32 produces the
\* stream [fill L=1 P=0][literal 0x40000000], and get at 32 is then true.
C20_PartitionSeed ==
    [][(words = SeedStream /\ SetTo(Offset(1, 1), TRUE)) =>
            /\ words' = <<BITSET_CREATE_EMPTY_FILL(1), BITSET_CREATE_LITERAL(0)>>
            /\ bitset_get(words', Offset(1, 1))]_vars

\* C20 as amended: the set at 32 shortens the fill to the one clean block
\* before block 1 and absorbs bit 1 of block 1 into its position; the
\* stream is the one word [fill L=1 P=2], the call returns false and get
\* at 32 is then true, get at 31 false.
C20_PartitionAbsorbs ==
    [][(words = SeedStream /\ SetTo(Offset(1, 1), TRUE)) =>
            /\ Len(words') = 1
            /\ BITSET_IS_FILL_WORD(words'[1])
            /\ BITSET_GET_LENGTH(words'[1]) = 1
            /\ BITSET_GET_POSITION(words'[1]) = 2
            /\ ~last'.ret
            /\ bitset_get(words', Offset(1, 1))
            /\ ~bitset_get(words', Offset(1, 0))]_vars

\* The set at 32 fell in the clean span of a fill and left one word.
C20_Witness ==
    /\ last.kind = "clean"
    /\ last.v
    /\ ref = {Offset(1, 1)}
    /\ Len(words) = 1
    /\ BITSET_GET_POSITION(words[1]) = 2

(***************************************************************************)
(* Gaps longer than one fill can hold.  Calls at bit 1 and at the first    *)
(* bit of block 1, and at two offsets more than BITSET_MAX_LENGTH blocks   *)
(* past them (the chain of test_suite_set, within 32-bit offsets).         *)
(***************************************************************************)
ChainNear == {1, Offset(1, 0)}

ChainFar == {Offset(BITSET_MAX_LENGTH + 2, 0), Offset(BITSET_MAX_LENGTH + 3, 3)}

SetChain == \E o \in ChainNear \cup ChainFar : SetTo(o, TRUE)

UnsetChain == \E o \in ChainNear \cup ChainFar : SetTo(o, FALSE)

NextChain == SetChain \/ UnsetChain

SpecChain == Init /\ [][NextChain]_vars

UnsignedAdd(a, b) ==
    LET low == (a.v % (2 ^ 16)) + (b.v % (2 ^ 16))
        high == (a.v \div (2 ^ 16)) + (b.v \div (2 ^ 16)) + (low \div (2 ^ 16))
    IN  Word((a.f + b.f + (high \div (2 ^ 15))) % 2,
             ((high % (2 ^ 15)) * (2 ^ 16)) + (low % (2 ^ 16)))

\* a <= b on unsigned.
UnsignedLeq(a, b) == a.f < b.f \/ (a.f = b.f /\ a.v <= b.v)

\* The loop of bitset_list_new_buffer and of bitset_list_iterator_new over
\* the entries from byte index i on: the running offset after every entry.
RECURSIVE WideWalk(_, _, _)
WideWalk(buffer, i, offset) ==
    IF i >= Len(buffer) THEN <<>>
    ELSE LET here == UnsignedAdd(offset, Lit(bitset_encoded_length(buffer, i)))
             offset_bytes == bitset_encoded_length_size(buffer, i)
             at == i + offset_bytes
             length == bitset_encoded_length(buffer, at)
             length_bytes == bitset_encoded_length_size(buffer, at)
         IN  <<here>> \o WideWalk(buffer, i + offset_bytes + length_bytes + length * SizeofWord,
                                  here)

\* The offsets of the entries of the iterator given to concat, and the
\* shifts: small ones, and ones in the upper half of the range.
WideEntries == {Lit(3), Lit(10), Word(1, 3), Word(1, P31)}

WideShifts == {Lit(0), Lit(10), Word(1, 0), Word(1, P31)}

\* The bytes of a delta in a buffer given to bitset_list_new_buffer: 3 in
\* one byte, 2^29 and 2^30 - 1 in four bytes.
WideDeltas == {<<3>>, <<224, 0, 0, 0>>, <<255, 255, 255, 255>>}

MaxWideEntries == 5

\* n entries with the delta bytes d, then one with e, every bitset empty.
RECURSIVE WideBuffer(_, _, _)
WideBuffer(d, n, e) ==
    IF n = 0 THEN e \o <<0>> ELSE d \o <<0>> \o WideBuffer(d, n - 1, e)

\* bitset_list_iterator_concat(i, c, offset) on an iterator c of two entries.
WideConcat ==
    \E first \in WideEntries, second \in WideEntries, shift \in WideShifts :
        /\ wide' = [op |-> "concat", operands |-> <<first, second>>,
                    offsets |-> <<UnsignedAdd(first, shift), UnsignedAdd(second, shift)>>,
                    exited |-> FALSE]
        /\ UNCHANGED <<bitsetVars, opVars, listVars, varintVars, iterVars, codecVars>>

\* bitset_list_new_buffer(length, buffer): tail_offset after every entry.
WideNewBuffer ==
    \E d \in WideDeltas, e \in WideDeltas, n \in 1 .. MaxWideEntries :
        LET sums == WideWalk(WideBuffer(d, n, e), 0, Lit(0))
        IN  /\ wide' = [op |-> "new_buffer", operands |-> <<Lit(0)>> \o SubSeq(sums, 1, n),
                        offsets |-> sums, exited |-> FALSE]
            /\ UNCHANGED <<bitsetVars, opVars, listVars, varintVars, iterVars, codecVars>>

\* bitset_list_iterator_new(c, START, END): the offset of every entry.
WideIteratorNew ==
    \E d \in WideDeltas, e \in WideDeltas, n \in 1 .. MaxWideEntries :
        LET sums == WideWalk(WideBuffer(d, n, e), 0, Lit(0))
        IN  /\ wide' = [op |-> "iterator_new", operands |-> <<Lit(0)>> \o SubSeq(sums, 1, n),
                        offsets |-> sums, exited |-> FALSE]
            /\ UNCHANGED <<bitsetVars, opVars, listVars, varintVars, iterVars, codecVars>>

NextWide == WideConcat \/ WideNewBuffer \/ WideIteratorNew

SpecWide == Init /\ [][NextWide]_vars

\* C22: offset arithmetic that overflows the width of the offsets is fatal,
\* never a silent wrap: a concat whose entry offset + shift is above the
\* largest offset, and the accumulation of the deltas of a buffer into
\* tail_offset or into the running offset of an iterator, terminate; a call
\* that returns has produced no offset smaller than the one it was added to.
C22_OverflowIsFatal ==
    (wide.op # "none" /\ ~wide.exited) =>
        \A j \in 1 .. Len(wide.offsets) : UnsignedLeq(wide.operands[j], wide.offsets[j])

(***************************************************************************)
(* Reading any word stream.  bitset_new_array makes a bitset of the words  *)
(* it is given, canonical or not; the tests build their inputs with it.    *)
(***************************************************************************)
MaxArray == 3

\* Fills with and without a position, of lengths 0, 1 and 2, and literals.
ArrayWords ==
    {BITSET_CREATE_EMPTY_FILL(0), BITSET_CREATE_EMPTY_FILL(1), BITSET_CREATE_FILL(1, 0),
     BITSET_CREATE_FILL(2, BITSET_LITERAL_LENGTH - 1), Lit(0),
     WOr(BITSET_CREATE_LITERAL(0), BITSET_CREATE_LITERAL(BITSET_LITERAL_LENGTH - 1)),
     Lit(286331153)}

ArrayStreams == UNION {[1 .. n -> ArrayWords] : n \in 1 .. MaxArray}

\* bitset_new_array(length, words): a new bitset holding a copy of the words.
NewArray ==
    \E ws \in ArrayStreams :
        /\ last = NoCall
        /\ words' = ws
        /\ last' = [NoCall EXCEPT !.kind = "array"]
        /\ UNCHANGED <<ref, opVars, listVars, varintVars, iterVars, codecVars, wideVars>>

NextArray == NewArray

SpecArray == Init /\ [][NextArray]_vars

\* The logical-to-physical mapping, written out: the 31-bit blocks a stream
\* stands for.  A literal is its block; a fill is L zero blocks and, with
\* P > 0, one block holding bit P - 1 (bit 0 being 0x40000000).
RECURSIVE Blocks(_)
Blocks(ws) ==
    IF ws = <<>> THEN <<>>
    ELSE LET w == Head(ws)
         IN  (IF w.f = 1
              THEN [j \in 1 .. BITSET_GET_LENGTH(w) |-> 0]
                   \o (IF BITSET_GET_POSITION(w) > 0
                       THEN <<2 ^ (BITSET_LITERAL_LENGTH - BITSET_GET_POSITION(w))>>
                       ELSE <<>>)
              ELSE <<w.v>>)
             \o Blocks(Tail(ws))

BlockHas(block, bit) == (block \div (2 ^ (BITSET_LITERAL_LENGTH - 1 - bit))) % 2 = 1

RECURSIVE Ones(_)
Ones(n) == IF n = 0 THEN 0 ELSE (n % 2) + Ones(n \div 2)

RECURSIVE OnesOf(_)
OnesOf(blocks) == IF blocks = <<>> THEN 0 ELSE Ones(Head(blocks)) + OnesOf(Tail(blocks))

\* C23: for any word stream, canonical or not, bitset_get(b, o) is true
\* exactly when o belongs to the set the logical-to-physical mapping decodes
\* (a bit of a literal's block, the absorbed bit of a fill; false in a clean
\* span and past the end), and bitset_count(b) is the size of that set.
C23_GetAndCountOfAnyStream ==
    last.kind = "array" =>
        LET blocks == Blocks(words)
        IN  /\ \A blk \in 0 .. Len(blocks), bit \in 0 .. (BITSET_LITERAL_LENGTH - 1) :
                    bitset_get(words, Offset(blk, bit))
                        <=> (blk < Len(blocks) /\ BlockHas(blocks[blk + 1], bit))
            /\ bitset_count(words) = OnesOf(blocks)

\* Two consecutive fills, the second with L = 0 and P = 0, then a literal.
C23_Witness ==
    /\ last.kind = "array"
    /\ words = <<BITSET_CREATE_EMPTY_FILL(1), BITSET_CREATE_EMPTY_FILL(0), Lit(286331153)>>
    /\ bitset_count(words) = 8
    /\ bitset_get(words, Offset(1, 2))

(***************************************************************************)
(* Calls inside a fill.  The bitsets are the arrays of the partition tests *)
(* of test_suite_set: one or two fills of lengths 1 to 3, with no position *)
(* or with the first or third bit absorbed; the calls are at the second    *)
(* bit of block 0, the first two bits of block 1 and the first of block 2. *)
(***************************************************************************)
SplitWords ==
    {BITSET_CREATE_EMPTY_FILL(1), BITSET_CREATE_EMPTY_FILL(3), BITSET_CREATE_FILL(1, 0),
     BITSET_CREATE_FILL(2, 0), BITSET_CREATE_FILL(3, 0), BITSET_CREATE_FILL(1, 2)}

SplitStreams == UNION {[1 .. n -> SplitWords] : n \in 1 .. 2}

SplitOffsets == {1, Offset(1, 0), Offset(1, 1), Offset(2, 0)}

NewSplit ==
    \E ws \in SplitStreams :
        /\ last = NoCall
        /\ words' = ws
        /\ last' = [NoCall EXCEPT !.kind = "array"]
        /\ UNCHANGED <<ref, opVars, listVars, varintVars, iterVars, codecVars, wideVars>>

SetSplit == \E o \in SplitOffsets : SetTo(o, TRUE)

UnsetSplit == \E o \in SplitOffsets : SetTo(o, FALSE)

NextSplit == NewSplit \/ SetSplit \/ UnsetSplit

SpecSplit == Init /\ [][NextSplit]_vars

\* The first block of the span of word i: the blocks the words before it cover.
SpanStart(i) == LogicalLength(SubSeq(words, 1, i - 1))

\* Block blk lies in the clean span of the fill at word i.
InCleanSpan(i, blk) ==
    /\ BITSET_IS_FILL_WORD(words[i])
    /\ SpanStart(i) <= blk
    /\ blk < SpanStart(i) + BITSET_GET_LENGTH(words[i])

\* Block blk is the absorbed block of the fill at word i.
IsAbsorbedBlock(i, blk) ==
    /\ BITSET_IS_FILL_WORD(words[i])
    /\ BITSET_GET_POSITION(words[i]) > 0
    /\ blk = SpanStart(i) + BITSET_GET_LENGTH(words[i])

\* The literal with only the given bit set, bit 0 being 0x40000000.
OneBit(bit) == Lit(2 ^ (BITSET_LITERAL_LENGTH - 1 - bit))

\* words' is words with word i replaced by `added` words.
Replaced(i, added) ==
    /\ Len(words') = Len(words) - 1 + added
    /\ SubSeq(words', 1, i - 1) = SubSeq(words, 1, i - 1)
    /\ SubSeq(words', i + added, Len(words')) = SubSeq(words, i + 1, Len(words))

IsFill(w, length, position) ==
    /\ BITSET_IS_FILL_WORD(w)
    /\ BITSET_GET_LENGTH(w) = length
    /\ BITSET_GET_POSITION(w) = position

RECURSIVE Trim(_)
Trim(blocks) ==
    IF blocks # <<>> /\ blocks[Len(blocks)] = 0
    THEN Trim(SubSeq(blocks, 1, Len(blocks) - 1))
    ELSE blocks

OtherBitsKept(o) ==
    Trim(Blocks(words'))
        = Trim([Blocks(words) EXCEPT ![(o \div BITSET_LITERAL_LENGTH) + 1] = 0])

\* The call made is a set or an unset at the absorbed bit of the fill at i.
AtAbsorbedBit(o, i, v) ==
    /\ IsAbsorbedBlock(i, o \div BITSET_LITERAL_LENGTH)
    /\ o % BITSET_LITERAL_LENGTH = BITSET_GET_POSITION(words[i]) - 1
    /\ SetTo(o, v)

C27_CreateFillRoundTrip ==
    codec.op = "create" =>
        LET L == codec.args[1]
            pos == codec.args[2]
            P == IF pos = BITSET_LITERAL_LENGTH THEN 0 ELSE pos + 1
        IN  /\ BITSET_IS_FILL_WORD(codec.w)
            /\ codec.length = L
            /\ codec.position = P
            /\ codec.w = Word(1, (P * (2 ^ BITSET_SPAN_LENGTH)) + L)

\* The longest fill, built with no absorbed bit.
C27_Witness ==
    /\ codec.op = "create"
    /\ codec.args = <<BITSET_MAX_LENGTH, BITSET_LITERAL_LENGTH>>
    /\ codec.length = BITSET_MAX_LENGTH
    /\ codec.position = 0

\* C28: BITSET_SET_POSITION overwrites the position field: for every fill
\* word w, whatever position it held, and every pos from 0 to 30, the result
\* has position pos + 1 and the fill bit and the length of w.
C28_SetPositionOverwrites ==
    codec.op = "set_position" =>
        /\ codec.position = codec.args[2] + 1
        /\ codec.w.f = codec.args[1].f
        /\ codec.length = BITSET_GET_LENGTH(codec.args[1])

(***************************************************************************)
(* The capacity of the list.                                               *)
(***************************************************************************)
IsPow2(n) == \E k \in 0 .. 31 : n = 2 ^ k

\* size is 0, or the smallest power of two that is at least length.
CapacityFits(c) ==
    /\ c.size >= c.length
    /\ \/ c.size = 0
       \/ /\ IsPow2(c.size)
          /\ c.size \div 2 < c.length

\* C29: in every state of a list made by bitset_list_new and grown by pushes,
\* size >= length, and size is 0 or the smallest power of two that is at
\* least length; no push makes size smaller.
C29_Capacity ==
    /\ CapacityFits(list)
    /\ [][/\ CapacityFits(list')
          /\ list'.size >= list.size]_vars

\* A push that fits in the capacity it found: 6 bytes in 8, then 2 more.
C29_Witness ==
    /\ list.count = 2
    /\ list.length = 8
    /\ list.size = 8
    /\ call.made
    /\ call.b = <<>>

(***************************************************************************)
(* The buffer of the list, scanned from byte 0.                            *)
(***************************************************************************)
\* The entries met by decoding a delta, a word count and 4 * word count
\* bytes, from index i on: where each starts and ends and what it decodes to.
RECURSIVE Scan(_, _)
Scan(buffer, i) ==
    IF i >= Len(buffer) THEN <<>>
    ELSE LET at == i + bitset_encoded_length_size(buffer, i)
             length == bitset_encoded_length(buffer, at)
             end == at + bitset_encoded_length_size(buffer, at) + length * SizeofWord
         IN  <<[start |-> i, delta |-> bitset_encoded_length(buffer, i),
                length |-> length, end |-> end]>> \o Scan(buffer, end)

RECURSIVE SumDeltas(_)
SumDeltas(scan) ==
    IF scan = <<>> THEN 0 ELSE Head(scan).delta + SumDeltas(Tail(scan))

\* The scan visits count entries, ends at length and meets the tail last,
\* and the k-th word count is the length of the k-th pushed bitset.
ScanShape ==
    LET scan == Scan(list.buffer, 0)
    IN  /\ Len(scan) = list.count
        /\ Len(list.buffer) = list.length
        /\ scan # <<>> =>
              /\ scan[Len(scan)].end = list.length
              /\ list.tail = PointerAt(scan[Len(scan)].start)
        /\ Len(entries) = Len(scan)
        /\ \A k \in 1 .. Len(scan) : scan[k].length = Len(entries[k].b)

\* C30: after any accepted pushes from bitset_list_new, the scan of the
\* buffer from byte 0 visits exactly count entries and ends at byte index
\* length, the decoded deltas add up to tail_offset, the k-th decoded word
\* count is the length of the k-th pushed bitset, and the last entry visited
\* starts at tail.
C30_BufferWellFormed ==
    /\ ScanShape
    /\ SumDeltas(Scan(list.buffer, 0)) = list.tail_offset

====
